---- MODULE Spec2Model ----
(***************************************************************************)
(* Mint status resolution of the indexer                                   *)
(* (packages/indexer/src/orderbook/mints/calldata/helpers.ts and its       *)
(* earlier revision):  the sanitizers toSafeTimestamp / toSafeNumber, the  *)
(* counters getCurrentSupply / getAmountMinted and the decision list       *)
(* getStatus.                                                              *)
(*                                                                         *)
(* Integers that may exceed the native range (the sentinels go up to       *)
(* 2^256-1) are sequences of decimal digits, most significant first;       *)
(* JavaScript strings are sequences of one-character strings.              *)
(***************************************************************************)
EXTENDS Integers, Sequences, FiniteSets, Bags

VARIABLES
    value,          \* the raw argument handed to a sanitizer
    safe,           \* what the last sanitizer call produced
    collectionMint, \* the mint descriptor getStatus is asked about
    clock,          \* what now() returns, in seconds
    nft_balances,   \* table nft_balances: rows (contract, token_id, owner, amount)
    collections,    \* table collections: the row of the mint's collection, if any
    result,         \* the current or last getStatus call and its outcome
    prior,          \* the verdicts of the getStatus calls before that one
    nft_transfer_events,  \* table nft_transfer_events, a bag of transfer rows
    minted          \* the last getAmountMinted call and what it returned

sanVars == <<value, safe>>

statusVars == <<collectionMint, clock, nft_balances, collections, result, prior>>

mintedVars == <<nft_transfer_events, minted>>

vars == <<value, safe, collectionMint, clock, nft_balances, collections, result, prior,
          nft_transfer_events, minted>>

-----------------------------------------------------------------------------
(* Bounds of the model *)

\* how many leading zeros a decimal string argument may carry
MaxPad == 1

\* the clock runs from 1 to MaxTime; startTime and endTime lie in 0..MaxTime
MaxTime == 2

\* the largest amount one nft_balances row of the mint's token holds
MaxBalance == 1

\* the largest collections.token_count
MaxTokenCount == 1

\* the number of rows of nft_transfer_events
MaxTransfers == 2

-----------------------------------------------------------------------------
(* JavaScript values: undefined, integral numbers, strings *)

DigitChars == <<"0", "1", "2", "3", "4", "5", "6", "7", "8", "9">>

IsDigitChar(c) == \E i \in 1..10 : DigitChars[i] = c

CharToDigit(c) == (CHOOSE i \in 1..10 : DigitChars[i] = c) - 1

ToChars(mag) == [i \in 1..Len(mag) |-> DigitChars[mag[i] + 1]]

JSUndefined == [t |-> "undefined", neg |-> FALSE, mag |-> <<>>, s |-> <<>>]

JSNumber(neg, mag) == [t |-> "number", neg |-> neg, mag |-> mag, s |-> <<>>]

JSString(s) == [t |-> "string", neg |-> FALSE, mag |-> <<>>, s |-> s]

\* `!value`: undefined, the number 0 and the empty string are falsy
Falsy(v) ==
    \/ v.t = "undefined"
    \/ v.t = "number" /\ v.mag = <<0>>
    \/ v.t = "string" /\ v.s = <<>>

-----------------------------------------------------------------------------
(* BigNumber: sign and magnitude, without leading zeros, zero not negative *)

RECURSIVE StripLeadingZeros(_)
StripLeadingZeros(mag) ==
    IF Len(mag) > 1 /\ mag[1] = 0 THEN StripLeadingZeros(Tail(mag)) ELSE mag

RECURSIVE MagCmp(_, _)
\* -1, 0 or 1 as magnitude a is below, equal to or above magnitude b
MagCmp(a, b) ==
    IF Len(a) # Len(b) THEN (IF Len(a) < Len(b) THEN -1 ELSE 1)
    ELSE IF Len(a) = 0 THEN 0
    ELSE IF a[1] # b[1] THEN (IF a[1] < b[1] THEN -1 ELSE 1)
    ELSE MagCmp(Tail(a), Tail(b))

BNCmp(a, b) ==
    IF a.neg /\ ~b.neg THEN -1
    ELSE IF ~a.neg /\ b.neg THEN 1
    ELSE IF a.neg THEN MagCmp(b.mag, a.mag)
    ELSE MagCmp(a.mag, b.mag)

BNThrow == [ok |-> FALSE, neg |-> FALSE, mag |-> <<>>]

BigNumber(neg, mag) ==
    LET m == StripLeadingZeros(mag)
    IN  [ok |-> TRUE, neg |-> neg /\ m # <<0>>, mag |-> m]

\* Number.MAX_SAFE_INTEGER, 0x1fffffffffffff
MAX_SAFE == <<9, 0, 0, 7, 1, 9, 9, 2, 5, 4, 7, 4, 0, 9, 9, 1>>

\* /^-?[0-9]+$/
IsDecimalString(s) ==
    LET body == IF Len(s) > 0 /\ s[1] = "-" THEN Tail(s) ELSE s
    IN  Len(body) > 0 /\ \A i \in 1..Len(body) : IsDigitChar(body[i])

\* bn(value) = BigNumber.from(value); hexadecimal strings are left out
bn(v) ==
    IF v.t = "number"
    THEN IF MagCmp(v.mag, MAX_SAFE) >= 0 THEN BNThrow ELSE BigNumber(v.neg, v.mag)
    ELSE IF v.t = "string" /\ IsDecimalString(v.s)
    THEN LET sgn  == v.s[1] = "-"
             body == IF sgn THEN Tail(v.s) ELSE v.s
         IN  BigNumber(sgn, [i \in 1..Len(body) |-> CharToDigit(body[i])])
    ELSE BNThrow

BNtoString(b) == (IF b.neg THEN <<"-">> ELSE <<>>) \o ToChars(b.mag)

\* BigNumber.toNumber() throws outside the safe integer range
BNtoNumber(b) ==
    IF MagCmp(b.mag, MAX_SAFE) > 0
    THEN [kind |-> "throw", val |-> JSUndefined]
    ELSE [kind |-> "return", val |-> JSNumber(b.neg, b.mag)]

Return(v) == [kind |-> "return", val |-> v]

Throw == [kind |-> "throw", val |-> JSUndefined]

-----------------------------------------------------------------------------
(* Sanitizers *)

\* the threshold 9999999999 of toSafeTimestamp
TimestampThreshold == BigNumber(FALSE, <<9, 9, 9, 9, 9, 9, 9, 9, 9, 9>>)

Zero == BigNumber(FALSE, <<0>>)

MaxInt32 == <<2, 1, 4, 7, 4, 8, 3, 6, 4, 7>>

MaxUint32 == <<4, 2, 9, 4, 9, 6, 7, 2, 9, 5>>

MaxUint64 == <<1, 8, 4, 4, 6, 7, 4, 4, 0, 7, 3, 7, 0, 9, 5, 5, 1, 6, 1, 5>>

MaxUint128 ==
    <<3, 4, 0, 2, 8, 2, 3, 6, 6, 9, 2, 0, 9, 3, 8, 4, 6, 3, 4, 6,
      3, 3, 7, 4, 6, 0, 7, 4, 3, 1, 7, 6, 8, 2, 1, 1, 4, 5, 5>>

MaxUint256 ==
    <<1, 1, 5, 7, 9, 2, 0, 8, 9, 2, 3, 7, 3, 1, 6, 1, 9, 5, 4, 2,
      3, 5, 7, 0, 9, 8, 5, 0, 0, 8, 6, 8, 7, 9, 0, 7, 8, 5, 3, 2,
      6, 9, 9, 8, 4, 6, 6, 5, 6, 4, 0, 5, 6, 4, 0, 3, 9, 4, 5, 7,
      5, 8, 4, 0, 0, 7, 9, 1, 3, 1, 2, 9, 6, 3, 9, 9, 3, 5>>

\* the list without max(uint64)
InfiniteNumbers_noUint64 ==
    { ToChars(<<0>>), ToChars(MaxInt32), ToChars(MaxUint32),
      ToChars(MaxUint128), ToChars(MaxUint256) }

\* the literal list of toSafeNumber
InfiniteNumbers ==
    { ToChars(<<0>>), ToChars(MaxInt32), ToChars(MaxUint32), ToChars(MaxUint64),
      ToChars(MaxUint128), ToChars(MaxUint256) }

\* gt in place of gte
toSafeTimestamp_gt(v) ==
    IF Falsy(v) THEN Return(JSUndefined)
    ELSE LET converted == bn(v)
         IN  IF ~converted.ok THEN Throw
             ELSE IF BNCmp(converted, Zero) = 0 \/ BNCmp(converted, TimestampThreshold) > 0
                  THEN Return(JSUndefined)
                  ELSE BNtoNumber(converted)

toSafeTimestamp(v) ==
    IF Falsy(v) THEN Return(JSUndefined)
    ELSE LET converted == bn(v)
         IN  IF ~converted.ok THEN Throw
             ELSE IF BNCmp(converted, Zero) = 0 \/ BNCmp(converted, TimestampThreshold) >= 0
                  THEN Return(JSUndefined)
                  ELSE BNtoNumber(converted)

\* the earlier revision: no falsy check, no zero check
toSafeTimestamp_part000(v) ==
    LET converted == bn(v)
    IN  IF ~converted.ok THEN Throw
        ELSE IF BNCmp(converted, TimestampThreshold) >= 0
             THEN Return(JSUndefined)
             ELSE BNtoNumber(converted)

toSafeNumber(v) ==
    IF Falsy(v) THEN Return(JSUndefined)
    ELSE LET converted == bn(v)
         IN  IF ~converted.ok THEN Throw
             ELSE IF BNtoString(converted) \in InfiniteNumbers
                  THEN Return(JSUndefined)
                  ELSE Return(JSString(BNtoString(converted)))

-----------------------------------------------------------------------------
(* The data store *)

RECURSIVE IntToMag(_)
IntToMag(n) == IF n < 10 THEN <<n>> ELSE Append(IntToMag(n \div 10), n % 10)

JSInt(n) == JSNumber(n < 0, IntToMag(IF n < 0 THEN -n ELSE n))

JSDecimal(n) == JSString((IF n < 0 THEN <<"-">> ELSE <<>>) \o ToChars(IntToMag(IF n < 0 THEN -n ELSE n)))

MintContract == "0xc1"

MintCollection == "0xc1"

MintToken == <<"1">>

Owners == {"0xa1", "0xa2"}

\* rows of other tokens, other contracts and a non-positive row of the mint's token
OtherBalances ==
    { [contract |-> MintContract, token_id |-> <<"2">>, owner |-> "0xa1", amount |-> 1],
      [contract |-> "0xc2", token_id |-> MintToken, owner |-> "0xa1", amount |-> 1],
      [contract |-> MintContract, token_id |-> MintToken, owner |-> "0xa3", amount |-> -1] }

RECURSIVE SumAmount(_)
SumAmount(rows) ==
    IF rows = {} THEN 0
    ELSE LET r == CHOOSE x \in rows : TRUE
         IN  r.amount + SumAmount(rows \ {r})

\* SELECT coalesce(sum(amount), 0) FROM nft_balances WHERE contract, token_id, amount > 0
SumBalances(contract, tokenId) ==
    SumAmount({ r \in nft_balances :
                  /\ r.contract = contract
                  /\ r.token_id = tokenId
                  /\ r.amount > 0 })

\* the BigNumber getCurrentSupply resolves to when the query succeeds
getCurrentSupply(cm) ==
    IF ~Falsy(cm.tokenId)
    THEN bn(JSDecimal(SumBalances(cm.contract, cm.tokenId.s)))
    ELSE IF collections.present /\ collections.id = cm.collection
         THEN bn(JSInt(collections.token_count))
         ELSE bn(JSInt(0))

-----------------------------------------------------------------------------
(* getStatus *)

now == JSInt(clock)

NumCmp(a, b) == BNCmp([neg |-> a.neg, mag |-> a.mag], [neg |-> b.neg, mag |-> b.mag])

NoReason == "none"

Outcome(kind, status, reason, t, trace, reads, supply) ==
    [kind |-> kind, status |-> status, reason |-> reason, currentTime |-> t,
     trace |-> trace, reads |-> reads, currentSupply |-> supply]

NoResult == Outcome("none", "none", NoReason, 0, <<>>, 0, <<>>)

\* collectionMint.startTime && currentTime <= collectionMint.startTime
NotYetStarted(cm, currentTime) ==
    ~Falsy(cm.startTime) /\ NumCmp(currentTime, cm.startTime) <= 0

\* > in place of >=
Ended_strict(cm, currentTime) ==
    ~Falsy(cm.endTime) /\ NumCmp(currentTime, cm.endTime) > 0

\* === in place of >=
Ended_atInstant(cm, currentTime) ==
    ~Falsy(cm.endTime) /\ NumCmp(currentTime, cm.endTime) = 0

\* collectionMint.endTime && currentTime >= collectionMint.endTime
Ended(cm, currentTime) ==
    ~Falsy(cm.endTime) /\ NumCmp(currentTime, cm.endTime) >= 0

\* without the check of collectionMint.status, as in the earlier revision
getStatus_noOverride(cm, t) ==
    IF NotYetStarted(cm, JSInt(t))
    THEN Outcome("verdict", "closed", "not-yet-started", t, <<"status", "startTime">>, 0, <<>>)
    ELSE IF Ended(cm, JSInt(t))
    THEN Outcome("verdict", "closed", "ended", t, <<"status", "startTime", "endTime">>, 0, <<>>)
    ELSE IF ~Falsy(cm.maxSupply)
    THEN Outcome("pending", "none", NoReason, t,
                 <<"status", "startTime", "endTime", "maxSupply">>, 1, <<>>)
    ELSE Outcome("verdict", "open", NoReason, t,
                 <<"status", "startTime", "endTime", "maxSupply">>, 0, <<>>)

\* the end time checked before the start time
getStatus_endedFirst(cm, t) ==
    IF cm.status = "closed"
    THEN Outcome("verdict", "closed", NoReason, t, <<"status">>, 0, <<>>)
    ELSE IF Ended(cm, JSInt(t))
    THEN Outcome("verdict", "closed", "ended", t, <<"status", "endTime">>, 0, <<>>)
    ELSE IF NotYetStarted(cm, JSInt(t))
    THEN Outcome("verdict", "closed", "not-yet-started", t, <<"status", "endTime", "startTime">>, 0, <<>>)
    ELSE IF ~Falsy(cm.maxSupply)
    THEN Outcome("pending", "none", NoReason, t,
                 <<"status", "endTime", "startTime", "maxSupply">>, 1, <<>>)
    ELSE Outcome("verdict", "open", NoReason, t,
                 <<"status", "endTime", "startTime", "maxSupply">>, 0, <<>>)

\* getStatus up to its await: the verdict, or the pending getCurrentSupply call
getStatus(cm, t) ==
    IF cm.status = "closed"
    THEN Outcome("verdict", "closed", NoReason, t, <<"status">>, 0, <<>>)
    ELSE IF NotYetStarted(cm, JSInt(t))
    THEN Outcome("verdict", "closed", "not-yet-started", t, <<"status", "startTime">>, 0, <<>>)
    ELSE IF Ended(cm, JSInt(t))
    THEN Outcome("verdict", "closed", "ended", t, <<"status", "startTime", "endTime">>, 0, <<>>)
    ELSE IF ~Falsy(cm.maxSupply)
    THEN Outcome("pending", "none", NoReason, t,
                 <<"status", "startTime", "endTime", "maxSupply">>, 1, <<>>)
    ELSE Outcome("verdict", "open", NoReason, t,
                 <<"status", "startTime", "endTime", "maxSupply">>, 0, <<>>)

\* lt in place of lte
getStatusResumed_lt(cm, pending, currentSupply) ==
    LET maxSupply == bn(cm.maxSupply)
    IN  IF ~maxSupply.ok
        THEN Outcome("error", "none", "invalid-bignumber", pending.currentTime,
                     pending.trace, pending.reads, currentSupply.mag)
        ELSE IF BNCmp(maxSupply, currentSupply) < 0
        THEN Outcome("verdict", "closed", "max-supply-exceeded", pending.currentTime,
                     pending.trace, pending.reads, currentSupply.mag)
        ELSE Outcome("verdict", "open", NoReason, pending.currentTime,
                     pending.trace, pending.reads, currentSupply.mag)

\* getStatus after getCurrentSupply resolved to currentSupply
getStatusResumed(cm, pending, currentSupply) ==
    LET maxSupply == bn(cm.maxSupply)
    IN  IF ~maxSupply.ok
        THEN Outcome("error", "none", "invalid-bignumber", pending.currentTime,
                     pending.trace, pending.reads, currentSupply.mag)
        ELSE IF BNCmp(maxSupply, currentSupply) <= 0
        THEN Outcome("verdict", "closed", "max-supply-exceeded", pending.currentTime,
                     pending.trace, pending.reads, currentSupply.mag)
        ELSE Outcome("verdict", "open", NoReason, pending.currentTime,
                     pending.trace, pending.reads, currentSupply.mag)

\* the rejection caught and the mint reported open
getStatusRejected_open(cm, pending) ==
    Outcome("verdict", "open", NoReason, pending.currentTime,
            pending.trace, pending.reads, <<>>)

\* getStatus after getCurrentSupply rejected: the rejection is not caught
getStatusRejected(cm, pending) ==
    Outcome("error", "none", "data-unavailable", pending.currentTime,
            pending.trace, pending.reads, <<>>)

\* how a completed call reads to its caller
Label(r) ==
    IF r.kind = "error" THEN "error"
    ELSE IF r.status = "open" THEN "open"
    ELSE IF r.reason = NoReason THEN "closed"
    ELSE r.reason

Times == {JSUndefined} \cup { JSInt(n) : n \in 0..MaxTime }

MaxSupplies ==
    { JSUndefined, JSString(<<>>), JSString(<<"a", "b", "c">>), JSString(<<"-", "1">>),
      JSString(<<"0">>), JSString(<<"1">>) }

TokenIds == {JSUndefined, JSString(MintToken)}

CollectionMints ==
    [ collection : {MintCollection}, contract : {MintContract}, tokenId : TokenIds,
      startTime : Times, endTime : Times, maxSupply : MaxSupplies,
      status : {"open", "closed"} ]

NoCollection == [present |-> FALSE, id |-> MintCollection, token_count |-> 0]

InitialBalances ==
    OtherBalances \cup
        { [contract |-> MintContract, token_id |-> MintToken, owner |-> o, amount |-> 0] : o \in Owners }

AddressZero == "0x00"

Users == {"0xa1", "0xa2"}

TransferRows ==
    [ address : {MintContract, "0xc2"}, token_id : {MintToken, <<"2">>},
      from : {AddressZero, "0xa1"}, to : Users, amount : {1, 2}, is_deleted : {0, 1} ]

\* without the is_deleted filter
Selected_keepDeleted(r, contract, tokenId, from, to) ==
    /\ r.address = contract
    /\ (~Falsy(tokenId) => r.token_id = tokenId.s)
    /\ r.from = from
    /\ r.to = to

\* what one row of the table contributes to
\* SELECT coalesce(sum(amount), 0) FROM nft_transfer_events
\* WHERE address, [token_id,] is_deleted = 0, "from", "to"
Selected(r, contract, tokenId, from, to) ==
    /\ r.address = contract
    /\ (~Falsy(tokenId) => r.token_id = tokenId.s)
    /\ r.is_deleted = 0
    /\ r.from = from
    /\ r.to = to

RECURSIVE SumWhere(_, _, _, _, _)
\* the sum over the given rows, each taken as often as the table holds it
SumWhere(rows, contract, tokenId, from, to) ==
    IF rows = {} THEN 0
    ELSE LET r == CHOOSE x \in rows : TRUE
         IN  (IF Selected(r, contract, tokenId, from, to)
              THEN r.amount * nft_transfer_events[r] ELSE 0)
                 + SumWhere(rows \ {r}, contract, tokenId, from, to)

\* the BigNumber getAmountMinted resolves to
getAmountMinted(cm, user) ==
    bn(JSDecimal(SumWhere(BagToSet(nft_transfer_events), cm.contract, cm.tokenId,
                          AddressZero, user)))

NotAsked == [asked |-> FALSE, tokenId |-> JSUndefined, contract |-> MintContract,
             user |-> AddressZero, amountMinted |-> BNThrow]

RECURSIVE Tables(_)
\* every table of at most n rows; equal rows are distinct transfers
Tables(n) ==
    IF n = 0 THEN {EmptyBag}
    ELSE LET smaller == Tables(n - 1)
         IN  smaller \cup { tb (+) SetToBag({r}) :
                              tb \in { x \in smaller : BagCardinality(x) = n - 1 },
                              r \in TransferRows }

MintedIdle ==
    /\ nft_transfer_events = EmptyBag
    /\ minted = NotAsked

MintedInit ==
    /\ nft_transfer_events \in Tables(MaxTransfers)
    /\ minted = NotAsked

GetAmountMinted ==
    \E tokenId \in TokenIds \cup {JSString(<<"2">>)}, user \in Users :
        LET cm == [ collection |-> MintCollection, contract |-> MintContract,
                    tokenId |-> tokenId, startTime |-> JSUndefined,
                    endTime |-> JSUndefined, maxSupply |-> JSUndefined,
                    status |-> "open" ]
        IN  /\ minted' = [asked |-> TRUE, tokenId |-> tokenId, contract |-> cm.contract,
                          user |-> user, amountMinted |-> getAmountMinted(cm, user)]
            /\ UNCHANGED <<nft_transfer_events, sanVars, statusVars>>

StatusIdle ==
    /\ collectionMint = [ collection |-> MintCollection, contract |-> MintContract,
                          tokenId |-> JSUndefined, startTime |-> JSUndefined,
                          endTime |-> JSUndefined, maxSupply |-> JSUndefined,
                          status |-> "open" ]
    /\ clock = 1
    /\ nft_balances = InitialBalances
    /\ collections = NoCollection
    /\ result = NoResult
    /\ prior = {}

StatusInit ==
    /\ collectionMint \in CollectionMints
    /\ clock = 1
    /\ nft_balances = InitialBalances
    /\ collections = NoCollection
    /\ result = NoResult
    /\ prior = {}

\* a caller invokes getStatus(collectionMint); it runs up to its first await
GetStatus ==
    /\ result.kind # "pending"
    /\ result' = getStatus(collectionMint, clock)
    /\ prior' = IF result.kind = "none" THEN prior ELSE prior \cup {Label(result)}
    /\ UNCHANGED <<collectionMint, clock, nft_balances, collections, sanVars, mintedVars>>

\* the query of getCurrentSupply returns and getStatus runs to its end
GetCurrentSupplyResolved ==
    /\ result.kind = "pending"
    /\ result' = getStatusResumed(collectionMint, result, getCurrentSupply(collectionMint))
    /\ UNCHANGED <<collectionMint, clock, nft_balances, collections, prior, sanVars, mintedVars>>

\* the query of getCurrentSupply fails
GetCurrentSupplyRejected ==
    /\ result.kind = "pending"
    /\ result' = getStatusRejected(collectionMint, result)
    /\ UNCHANGED <<collectionMint, clock, nft_balances, collections, prior, sanVars, mintedVars>>

\* time passes
Tick ==
    /\ clock < MaxTime
    /\ clock' = clock + 1
    /\ UNCHANGED <<collectionMint, nft_balances, collections, result, prior, sanVars, mintedVars>>

\* the ingestion pipeline moves a unit of the mint's token in or out of a balance
BalanceChanged ==
    \E r \in nft_balances, d \in {-1, 1} :
        /\ r.contract = MintContract
        /\ r.token_id = MintToken
        /\ r.owner \in Owners
        /\ r.amount + d \in 0..MaxBalance
        /\ nft_balances' = (nft_balances \ {r}) \cup {[r EXCEPT !.amount = r.amount + d]}
        /\ UNCHANGED <<collectionMint, clock, collections, result, prior, sanVars, mintedVars>>

\* the ingestion pipeline creates the collection row or updates its token count
TokenCountChanged ==
    /\ \/ /\ ~collections.present
          /\ collections' = [collections EXCEPT !.present = TRUE]
       \/ /\ collections.present
          /\ \E d \in {-1, 1} :
                /\ collections.token_count + d \in 0..MaxTokenCount
                /\ collections' = [collections EXCEPT !.token_count = collections.token_count + d]
    /\ UNCHANGED <<collectionMint, clock, nft_balances, result, prior, sanVars, mintedVars>>

-----------------------------------------------------------------------------
(* Arguments of the sanitizers: the values around every threshold, as a    *)
(* number or as a decimal string with up to MaxPad leading zeros           *)

ReplaceLast(mag, d) == [i \in 1..Len(mag) |-> IF i = Len(mag) THEN d ELSE mag[i]]

Landmarks ==
    { <<0>>, MaxInt32, MaxUint32, MaxUint64, MaxUint128, MaxUint256,
      TimestampThreshold.mag }

\* canonical magnitudes: no leading zero
RawValues ==
    LET near == { ReplaceLast(m, d) : m \in Landmarks, d \in 0..9 }
        more == { m \o <<d>> : m \in Landmarks \ {<<0>>}, d \in {0, 9} }
    IN  near \cup more

Pad(mag, p) == [i \in 1..p |-> 0] \o mag

Encode(raw, form, p) ==
    IF form = "number" THEN JSNumber(FALSE, raw) ELSE JSString(ToChars(Pad(raw, p)))

\* a JavaScript number holds an integer exactly only up to MAX_SAFE_INTEGER
Representable(raw, form) == form = "string" \/ MagCmp(raw, MAX_SAFE) <= 0

SanitizerArgs ==
    { Encode(raw, "string", p) : raw \in RawValues, p \in 0..MaxPad }
        \cup { Encode(raw, "number", 0) : raw \in { r \in RawValues : Representable(r, "number") } }
        \cup { JSUndefined, JSString(<<>>) }

NoCall == [op |-> "none", kind |-> "none", val |-> JSUndefined]

Called(op, r) == [op |-> op, kind |-> r.kind, val |-> r.val]

SanInit ==
    /\ value \in SanitizerArgs
    /\ safe = NoCall

ToSafeTimestamp ==
    /\ safe' = Called("toSafeTimestamp", toSafeTimestamp(value))
    /\ UNCHANGED <<value, statusVars, mintedVars>>

ToSafeTimestamp_part000 ==
    /\ safe' = Called("toSafeTimestamp_part000", toSafeTimestamp_part000(value))
    /\ UNCHANGED <<value, statusVars, mintedVars>>

ToSafeNumber ==
    /\ safe' = Called("toSafeNumber", toSafeNumber(value))
    /\ UNCHANGED <<value, statusVars, mintedVars>>

-----------------------------------------------------------------------------
(* Specifications *)

SanIdle ==
    /\ value = JSUndefined
    /\ safe = NoCall

\* getStatus calls on one mint while time passes and the tables change
Init == StatusInit /\ SanIdle /\ MintedIdle

Next ==
    \/ GetStatus
    \/ GetCurrentSupplyResolved
    \/ GetCurrentSupplyRejected
    \/ Tick
    \/ BalanceChanged
    \/ TokenCountChanged

Spec == Init /\ [][Next]_vars

\* the sanitizers applied to one argument
SanNext ==
    \/ ToSafeTimestamp
    \/ ToSafeTimestamp_part000
    \/ ToSafeNumber

InitSanitize == SanInit /\ StatusIdle /\ MintedIdle

SpecSanitize == InitSanitize /\ [][SanNext]_vars

\* getAmountMinted asked of one table of transfers
MintedNext == GetAmountMinted

InitMinted == MintedInit /\ SanIdle /\ StatusIdle

SpecMinted == InitMinted /\ [][MintedNext]_vars

-----------------------------------------------------------------------------
(* Properties.  The conditions of the decision list are restated here over *)
(* plain integers, independently of the operators above.                   *)

RECURSIVE MagToInt(_)
MagToInt(mag) ==
    IF Len(mag) = 0 THEN 0 ELSE 10 * MagToInt(SubSeq(mag, 1, Len(mag) - 1)) + mag[Len(mag)]

\* a time field that is set: a number other than 0
TimeSet(x) == x.t = "number" /\ x.mag # <<0>>

TimeOf(x) == MagToInt(x.mag)

OverrideHolds == collectionMint.status = "closed"

NotStartedHolds(t) ==
    TimeSet(collectionMint.startTime) /\ t <= TimeOf(collectionMint.startTime)

EndedHolds(t) ==
    TimeSet(collectionMint.endTime) /\ t >= TimeOf(collectionMint.endTime)

MaxSupplyGiven == collectionMint.maxSupply.t = "string" /\ collectionMint.maxSupply.s # <<>>

\* maxSupply is a decimal integer string, with or without a sign
DecimalChars == {"0", "1", "2", "3", "4", "5", "6", "7", "8", "9"}

Digits(s) == Len(s) > 0 /\ \A i \in 1..Len(s) : s[i] \in DecimalChars

MaxSupplyDecimal ==
    /\ MaxSupplyGiven
    /\ \/ Digits(collectionMint.maxSupply.s)
       \/ /\ collectionMint.maxSupply.s[1] = "-"
          /\ Digits(Tail(collectionMint.maxSupply.s))

MaxSupplyOf ==
    LET s == collectionMint.maxSupply.s
    IN  IF s[1] = "-" THEN 0 - MagToInt([i \in 1..(Len(s) - 1) |-> CharToDigit(s[i + 1])])
        ELSE MagToInt([i \in 1..Len(s) |-> CharToDigit(s[i])])

\* maxSupply is given and is not a non-negative decimal integer string
MaxSupplyMalformed ==
    /\ collectionMint.maxSupply.t = "string"
    /\ ~Digits(collectionMint.maxSupply.s)

Completed == result.kind \in {"verdict", "error"}

ClosedFor(reason) ==
    result.kind = "verdict" /\ result.status = "closed" /\ result.reason = reason

IsOpen == result.kind = "verdict" /\ result.status = "open" /\ result.reason = NoReason

\* C1: a descriptor whose status is "closed" gets the verdict closed with no
\* reason, whatever startTime, endTime, maxSupply, the clock and the supply are.
ClosedOverrideIsTerminal ==
    (OverrideHolds /\ result.kind # "none") => ClosedFor(NoReason)

ClosedOverrideWitness ==
    /\ OverrideHolds
    /\ ClosedFor(NoReason)
    /\ EndedHolds(result.currentTime)
    /\ collectionMint.maxSupply = JSString(<<"0">>)
    /\ clock > result.currentTime

\* C2: the rules are evaluated in the order override, not-yet-started, ended,
\* max-supply; the first that matches decides the verdict and no later check
\* is made, so getCurrentSupply is invoked exactly when rules 1-3 do not
\* match and maxSupply is given.
FirstMatchingRuleWins ==
    result.kind # "none" =>
        LET t  == result.currentTime
            r1 == OverrideHolds
            r2 == NotStartedHolds(t)
            r3 == EndedHolds(t)
        IN  /\ r1 => ClosedFor(NoReason) /\ result.trace = <<"status">>
            /\ (~r1 /\ r2) =>
                    /\ ClosedFor("not-yet-started")
                    /\ result.trace = <<"status", "startTime">>
            /\ (~r1 /\ ~r2 /\ r3) =>
                    /\ ClosedFor("ended")
                    /\ result.trace = <<"status", "startTime", "endTime">>
            /\ (~r1 /\ ~r2 /\ ~r3) =>
                    /\ result.trace = <<"status", "startTime", "endTime", "maxSupply">>
                    /\ result.reason \notin {"not-yet-started", "ended"}
            /\ result.reads = (IF ~r1 /\ ~r2 /\ ~r3 /\ MaxSupplyGiven THEN 1 ELSE 0)

FirstMatchingRuleWitness ==
    /\ ~OverrideHolds
    /\ NotStartedHolds(result.currentTime)
    /\ EndedHolds(result.currentTime)
    /\ collectionMint.maxSupply = JSString(<<"0">>)
    /\ ClosedFor("not-yet-started")
    /\ result.reads = 0

\* C3, as stated: every descriptor whose endTime is in the past gets the
\* verdict closed with reason "ended".
EndedWheneverPastEnd ==
    (Completed /\ TimeSet(collectionMint.endTime)
        /\ TimeOf(collectionMint.endTime) < result.currentTime)
    => ClosedFor("ended")

\* C3, amended: when the status is not "closed" and the mint has started
\* (startTime absent or before the clock), an endTime that is set and not
\* after the clock gives closed with reason "ended", without a supply read.
EndedUnlessEarlierRule ==
    (result.kind # "none" /\ ~OverrideHolds /\ ~NotStartedHolds(result.currentTime)
        /\ EndedHolds(result.currentTime))
    => (ClosedFor("ended") /\ result.reads = 0)

\* the end time is reached at the very second of the call and supply is left
EndedWitness ==
    /\ ClosedFor("ended")
    /\ TimeOf(collectionMint.endTime) = result.currentTime
    /\ collectionMint.maxSupply = JSString(<<"1">>)
    /\ ~Falsy(collectionMint.tokenId)
    /\ SumBalances(MintContract, MintToken) = 0

\* the supply getCurrentSupply would report in this state
SupplyNow == MagToInt(getCurrentSupply(collectionMint).mag)

\* C4, as stated: every call that finds maxSupply equal to or below the
\* current supply answers closed with reason "max-supply-exceeded".
ClosedWheneverSupplyReached ==
    [][ (result' # result /\ result'.kind = "verdict"
            /\ MaxSupplyGiven /\ Digits(collectionMint.maxSupply.s)
            /\ MaxSupplyOf <= SupplyNow)
        => (result'.status = "closed" /\ result'.reason = "max-supply-exceeded") ]_vars

\* C4, amended: when the status is not "closed", neither timing rule matches,
\* maxSupply is a decimal integer string and the supply read succeeds, the
\* verdict is closed with reason "max-supply-exceeded" if maxSupply is equal
\* to or below the supply read, and open with no reason if it is above.
SupplyDecidesWhenNoEarlierRule ==
    (Completed /\ result.reason # "data-unavailable"
        /\ ~OverrideHolds /\ ~NotStartedHolds(result.currentTime)
        /\ ~EndedHolds(result.currentTime) /\ MaxSupplyDecimal)
    => /\ result.reads = 1
       /\ IF MaxSupplyOf <= MagToInt(result.currentSupply)
          THEN ClosedFor("max-supply-exceeded")
          ELSE IsOpen

\* maxSupply "1" met exactly by a supply of 1
SupplyDecidesWitness ==
    /\ ClosedFor("max-supply-exceeded")
    /\ collectionMint.maxSupply = JSString(<<"1">>)
    /\ result.currentSupply = <<1>>

\* C5: when the read of getCurrentSupply fails, getStatus fails with that
\* error and gives no verdict.
SupplyFailurePropagates ==
    [][ GetCurrentSupplyRejected =>
            /\ result'.kind = "error"
            /\ result'.reason = "data-unavailable"
            /\ result'.status \notin {"open", "closed"} ]_vars

SupplyFailureWitness ==
    /\ result.kind = "error"
    /\ result.reason = "data-unavailable"
    /\ result.reads = 1

\* C6: a maxSupply that is not a non-negative integer string makes getStatus
\* fail at once: no verdict, no supply read, not treated as absent.
MalformedMaxSupplyFailsFast ==
    (MaxSupplyMalformed /\ result.kind # "none")
    => (result.kind = "error" /\ result.reason = "invalid-bignumber" /\ result.reads = 0)

\* the sentinels of toSafeNumber, as magnitudes
Sentinels == {<<0>>, MaxInt32, MaxUint32, MaxUint64, MaxUint128, MaxUint256}

Absent == safe.kind = "return" /\ safe.val = JSUndefined

\* C7: toSafeNumber returns absent for a falsy argument and for one whose
\* decimal string is 0 or one of the five maxima, and the decimal string of
\* every other argument; it never returns a sentinel string.
SafeNumberDropsSentinelsOnly ==
    safe.op = "toSafeNumber" =>
        /\ Falsy(value) => Absent
        /\ \A raw \in RawValues, form \in {"number", "string"}, p \in 0..MaxPad :
              (Representable(raw, form) /\ value = Encode(raw, form, p)) =>
                  IF raw \in Sentinels THEN Absent
                  ELSE safe.kind = "return" /\ safe.val = JSString(ToChars(raw))
        /\ safe.kind = "return"
        /\ safe.val.t = "string" => safe.val.s \notin { ToChars(m) : m \in Sentinels }

\* 4294967294, next to max(uint32), is returned
SafeNumberWitness ==
    /\ safe.op = "toSafeNumber"
    /\ value = JSString(ToChars(ReplaceLast(MaxUint32, 4)))
    /\ safe.val = JSString(ToChars(ReplaceLast(MaxUint32, 4)))

ThresholdMag == <<9, 9, 9, 9, 9, 9, 9, 9, 9, 9>>

\* what C8 says of one argument
StrictTimestamp ==
    /\ Falsy(value) => Absent
    /\ \A raw \in RawValues, form \in {"number", "string"}, p \in 0..MaxPad :
          (Representable(raw, form) /\ value = Encode(raw, form, p)) =>
              IF raw = <<0>> \/ MagCmp(raw, ThresholdMag) >= 0 THEN Absent
              ELSE safe.kind = "return" /\ safe.val = JSNumber(FALSE, raw)
    /\ (safe.kind = "return" /\ safe.val.t = "number") =>
          /\ safe.val.mag # <<0>>
          /\ MagCmp(safe.val.mag, ThresholdMag) < 0

\* C8, as stated: toSafeTimestamp, in either file, returns absent for a falsy
\* or zero argument or one at or above 9999999999, else the argument as an
\* integer; what it returns is non-zero and below 9999999999.
SafeTimestampStrictEverywhere ==
    safe.op \in {"toSafeTimestamp", "toSafeTimestamp_part000"} => StrictTimestamp

\* C8, amended: that holds of toSafeTimestamp of mints/calldata/helpers.ts;
\* the earlier revision returns absent only at or above 9999999999, returns
\* 0 for 0 and throws on undefined and on the empty string, so what it
\* returns is below 9999999999 but may be zero.
SafeTimestampByVariant ==
    /\ safe.op = "toSafeTimestamp" => StrictTimestamp
    /\ safe.op = "toSafeTimestamp_part000" =>
          /\ value \in {JSUndefined, JSString(<<>>)} => safe.kind = "throw"
          /\ \A raw \in RawValues, form \in {"number", "string"}, p \in 0..MaxPad :
                (Representable(raw, form) /\ value = Encode(raw, form, p)) =>
                    IF MagCmp(raw, ThresholdMag) >= 0 THEN Absent
                    ELSE safe.kind = "return" /\ safe.val = JSNumber(FALSE, raw)
          /\ (safe.kind = "return" /\ safe.val.t = "number") =>
                MagCmp(safe.val.mag, ThresholdMag) < 0

\* 9999999998, one below the threshold, is returned as a number
SafeTimestampWitness ==
    /\ safe.op = "toSafeTimestamp"
    /\ value = JSString(ToChars(Pad(ReplaceLast(ThresholdMag, 8), MaxPad)))
    /\ safe.val = JSNumber(FALSE, ReplaceLast(ThresholdMag, 8))

\* the rows C9 counts for the last call
MintRows(amount) ==
    { r \in BagToSet(nft_transfer_events) :
        /\ r.address = minted.contract
        /\ r.from = AddressZero
        /\ r.to = minted.user
        /\ r.is_deleted = 0
        /\ (minted.tokenId # JSUndefined => r.token_id = minted.tokenId.s)
        /\ r.amount = amount }

HowMany(rows) == BagCardinality([r \in rows |-> nft_transfer_events[r]])

\* C9: getAmountMinted returns the sum of amount over exactly the transfers
\* of the contract from the zero address to the user that are not deleted, of
\* the descriptor's token when it has one, and 0 when there is none.
AmountMintedCountsMintsOnly ==
    minted.asked =>
        /\ minted.amountMinted.ok
        /\ ~minted.amountMinted.neg
        /\ MagToInt(minted.amountMinted.mag) = HowMany(MintRows(1)) + 2 * HowMany(MintRows(2))

\* a deleted mint and a transfer between users lie beside a counted mint
AmountMintedWitness ==
    /\ minted.asked
    /\ minted.amountMinted.mag = <<2>>
    /\ \E r \in BagToSet(nft_transfer_events) :
          r.is_deleted = 1 /\ r.from = AddressZero /\ r.to = minted.user
              /\ r.address = minted.contract

\* C10: for a descriptor whose status is not "closed", under a clock that
\* never goes back, once a call answered "ended" every later call answers
\* closed with reason "ended", and no call answers "not-yet-started" after an
\* earlier call answered open, "ended" or "max-supply-exceeded".
TimingVerdictsMonotone ==
    (~OverrideHolds /\ result.kind # "none") =>
        /\ "ended" \in prior => ClosedFor("ended")
        /\ (prior \cap {"open", "ended", "max-supply-exceeded"}) # {}
              => result.reason # "not-yet-started"

\* ended a second time, after the supply went up
TimingMonotoneWitness ==
    /\ "ended" \in prior
    /\ ClosedFor("ended")
    /\ SumBalances(MintContract, MintToken) > 0
    /\ clock > TimeOf(collectionMint.endTime)

====
